---- MODULE Spec2Model ----
(***************************************************************************)
(* Model of the Battleship probability engine (utils/probabilityCalculator *)
(* .ts, kept here as src/unnamed/part_001).                                *)
(*                                                                         *)
(* calculateProbabilityMap is a pure function of its seven arguments.  The *)
(* state machine draws the arguments in Init and the single action         *)
(* Calculate applies the function to them.                                 *)
(*                                                                         *)
(* The game component (components/BattleshipGame.tsx) is modelled beside   *)
(* it: gameState holds the state of the component, hitPatterns the last    *)
(* result of analyzeHitPatterns with the arguments of the call, and event  *)
(* the handler that ran last with its arguments.  One action per handler.  *)
(*                                                                         *)
(* Numbers.  The code computes with IEEE doubles.  The model computes with *)
(* exact rationals: a probability map is a record [n, d] whose cell value  *)
(* is n[cell] / d, all cells over the one denominator d.  Every map is     *)
(* kept in lowest terms (Reduce), so two maps are equal as values exactly  *)
(* when they are equal as records.                                         *)
(***************************************************************************)
EXTENDS Integers, Sequences, FiniteSets, TLC

VARIABLES boardHeight, boardWidth, hits, misses, remainingShips, mode,
          sunkShips, pc, probabilityMap, calls,
          gameState, hitPatterns, event

vars == <<boardHeight, boardWidth, hits, misses, remainingShips, mode,
          sunkShips, pc, probabilityMap, calls, gameState, hitPatterns, event>>

(***************************************************************************)
(* Bounds of the model.                                                    *)
(***************************************************************************)
MaxHeight == 2
MaxWidth == 3
MaxHits == 2
MaxMisses == 2
MaxShips == 2
MaxShipLen == 3
\* Bounds of the specification SpecHits (longer hit lists, wider boards).
\* Calls of the engine with the same arguments in one behaviour.
MaxCalls == 2
WideWidth == 4
MaxOrderedHits == 4
\* Bounds of the specification SpecOpen (larger boards, longer ships).
OpenSize == 5
OpenShipLen == 5
OpenShips == 2
\* Bounds of the specification SpecSunk (hits with a sunk ship among them).
MaxSunkHits == 3
MaxSunkMisses == 1
\* Bounds of the specification SpecGame: the shots of one game, and the
\* corner of the board in which cells are clicked and ships are placed.
MaxShots == 3
ReachRows == 2
ReachCols == 3

(***************************************************************************)
(* Program constants.                                                      *)
(***************************************************************************)
NORMAL == "normal"
HUNTING == "hunting"
TARGETING == "targeting"
SUPER_AGGRESSIVE == "aggressive"
OPTIMIZED == "optimized"
ProbabilityMode == {NORMAL, HUNTING, TARGETING, SUPER_AGGRESSIVE, OPTIMIZED}

ADJACENT_DIRECTIONS == {<<-1, 0>>, <<0, 1>>, <<1, 0>>, <<0, -1>>}
ADJACENCY_FACTOR == 3
ALIGNMENT_FACTOR == 4
COMPLETION_FACTOR == 5
SUPER_ADJACENCY_FACTOR == 5
SUPER_ALIGNMENT_FACTOR == 8
SUPER_COMPLETION_FACTOR == 10
OPTIMIZED_ADJACENCY_FACTOR == 10
OPTIMIZED_ALIGNMENT_FACTOR == 15
OPTIMIZED_COMPLETION_FACTOR == 20
OPTIMIZED_PATTERN_FACTOR == 5
\* ENTROPY_WEIGHT = 0.3, as the fraction EntropyWeightNum / EntropyWeightDen
EntropyWeightNum == 3
EntropyWeightDen == 10

(***************************************************************************)
(* Arithmetic helpers.                                                     *)
(***************************************************************************)
Min(a, b) == IF a < b THEN a ELSE b
Max(a, b) == IF a > b THEN a ELSE b

SetMax(S) == CHOOSE x \in S : \A y \in S : y <= x
SetMin(S) == CHOOSE x \in S : \A y \in S : x <= y

RECURSIVE GCD(_, _)
GCD(a, b) == IF b = 0 THEN a ELSE GCD(b, a % b)

RECURSIVE Pow(_, _)
Pow(a, k) == IF k = 0 THEN 1 ELSE a * Pow(a, k - 1)

RECURSIVE SumOver(_, _)
SumOver(f, S) ==
  IF S = {} THEN 0
  ELSE LET x == CHOOSE y \in S : TRUE IN f[x] + SumOver(f, S \ {x})

RECURSIVE GCDOver(_, _, _)
GCDOver(f, S, g) ==
  IF S = {} \/ g = 1 THEN g
  ELSE LET x == CHOOSE y \in S : TRUE IN GCDOver(f, S \ {x}, GCD(f[x], g))

Cells(height, width) == (0 .. height - 1) \X (0 .. width - 1)

\* The function f as an explicit table: comparing f makes TLC enumerate it
\* once, and later reads of f[x] look the value up instead of evaluating
\* the defining expression again.
Table(f) == IF f = <<>> THEN <<>> ELSE f

\* A map in lowest terms: the same rational values, n and d divided by
\* their common divisor.
Reduce(M) ==
  LET n == Table(M.n)
      g == GCDOver(n, DOMAIN n, M.d)
  IN IF g <= 1 THEN [n |-> n, d |-> M.d]
     ELSE [n |-> Table([c \in DOMAIN n |-> n[c] \div g]), d |-> M.d \div g]

\* Multiply cell c by (a / b) ^ k[c], for every cell.
Boost(M, k, a, b) ==
  LET K == SetMax({k[c] : c \in DOMAIN M.n})
  IN Reduce([n |-> [c \in DOMAIN M.n |->
                      M.n[c] * Pow(a, k[c]) * Pow(b, K - k[c])],
             d |-> M.d * Pow(b, K)])

\* Multiply every strictly positive cell of the set S by a / b, once.
BoostCells(M, S, a, b) ==
  Boost(M, [c \in DOMAIN M.n |-> IF c \in S /\ M.n[c] > 0 THEN 1 ELSE 0], a, b)

ZeroMap(height, width) == [n |-> [c \in Cells(height, width) |-> 0], d |-> 1]

\* Variant: the column of a list entry compared with the row of coord.
isCoordinateInListRowTwice(coord, list) ==
  \E i \in DOMAIN list : list[i][1] = coord[1] /\ list[i][2] = coord[1]

isCoordinateInList(coord, list) == \E i \in DOMAIN list : list[i] = coord

isValidCell(row, col, height, width) ==
  row >= 0 /\ row < height /\ col >= 0 /\ col < width

(***************************************************************************)
(* Placement enumeration and the consistency filter.                       *)
(***************************************************************************)
\* Variant: no consistency filter.
isConsistentAlways(placement, hitList) == TRUE

\* Variant: a placement must hold none of the hits or be hit in every cell.
isConsistentAllOrNone(placement, hitList) ==
  LET overlappingHits == SelectSeq(hitList,
                           LAMBDA hit : isCoordinateInList(hit, placement))
  IN Len(overlappingHits) = 0 \/ Len(overlappingHits) = Len(placement)

\* The overlapped hits' placement indices, sorted, are checked pairwise for
\* index[i] = index[i-1] + 1: as many distinct indices as overlapping hits,
\* and no hole between the least and the greatest.
isConsistentWithHits(placement, hitList) ==
  LET overlappingHits == SelectSeq(hitList,
                           LAMBDA hit : isCoordinateInList(hit, placement))
      placementIndices == {i \in DOMAIN placement :
                             isCoordinateInList(placement[i], overlappingHits)}
  IN \/ Len(overlappingHits) = 0
     \/ /\ Cardinality(placementIndices) = Len(overlappingHits)
        /\ SetMax(placementIndices) - SetMin(placementIndices) + 1
             = Len(overlappingHits)

\* Variant: the loop over vertical placements left out.
generateHorizontalPlacements(height, width, shipLength, hitList, missList) ==
  LET horizontal(row, col) == [i \in 1 .. shipLength |-> <<row, col + i - 1>>]
  IN {[direction |-> "horizontal", cells |-> horizontal(row, col)] :
        <<row, col>> \in {rc \in (0 .. height - 1) \X (0 .. width - shipLength) :
                            /\ \A i \in 1 .. shipLength :
                                 ~isCoordinateInList(horizontal(rc[1], rc[2])[i], missList)
                            /\ isConsistentWithHits(horizontal(rc[1], rc[2]), hitList)}}

\* Variant: both loops stop after the first start position of each line.
generateEdgePlacements(height, width, shipLength, hitList, missList) ==
  LET horizontal(row, col) == [i \in 1 .. shipLength |-> <<row, col + i - 1>>]
      vertical(row, col) == [i \in 1 .. shipLength |-> <<row + i - 1, col>>]
      missFree(placement) ==
        \A i \in DOMAIN placement : ~isCoordinateInList(placement[i], missList)
  IN {[direction |-> "horizontal", cells |-> horizontal(row, col)] :
        <<row, col>> \in {rc \in (0 .. height - 1) \X (0 .. Min(0, width - shipLength)) :
                            /\ missFree(horizontal(rc[1], rc[2]))
                            /\ isConsistentWithHits(horizontal(rc[1], rc[2]), hitList)}}
     \cup
     {[direction |-> "vertical", cells |-> vertical(row, col)] :
        <<row, col>> \in {rc \in (0 .. Min(0, height - shipLength)) \X (0 .. width - 1) :
                            /\ missFree(vertical(rc[1], rc[2]))
                            /\ isConsistentWithHits(vertical(rc[1], rc[2]), hitList)}}

\* Variant: the miss test of both loops left out.
generatePlacementsOverMisses(height, width, shipLength, hitList, missList) ==
  LET horizontal(row, col) == [i \in 1 .. shipLength |-> <<row, col + i - 1>>]
      vertical(row, col) == [i \in 1 .. shipLength |-> <<row + i - 1, col>>]
  IN {[direction |-> "horizontal", cells |-> horizontal(row, col)] :
        <<row, col>> \in {rc \in (0 .. height - 1) \X (0 .. width - shipLength) :
                            isConsistentWithHits(horizontal(rc[1], rc[2]), hitList)}}
     \cup
     {[direction |-> "vertical", cells |-> vertical(row, col)] :
        <<row, col>> \in {rc \in (0 .. height - shipLength) \X (0 .. width - 1) :
                            isConsistentWithHits(vertical(rc[1], rc[2]), hitList)}}

\* The placements the code pushes, one record per push: the direction tag
\* keeps the horizontal and the vertical push of a length-1 ship apart, as
\* the two entries they are in the code's list.
generateValidPlacements(height, width, shipLength, hitList, missList) ==
  LET horizontal(row, col) == [i \in 1 .. shipLength |-> <<row, col + i - 1>>]
      vertical(row, col) == [i \in 1 .. shipLength |-> <<row + i - 1, col>>]
      missFree(placement) ==
        \A i \in DOMAIN placement : ~isCoordinateInList(placement[i], missList)
  IN {[direction |-> "horizontal", cells |-> horizontal(row, col)] :
        <<row, col>> \in {rc \in (0 .. height - 1) \X (0 .. width - shipLength) :
                            /\ missFree(horizontal(rc[1], rc[2]))
                            /\ isConsistentWithHits(horizontal(rc[1], rc[2]), hitList)}}
     \cup
     {[direction |-> "vertical", cells |-> vertical(row, col)] :
        <<row, col>> \in {rc \in (0 .. height - shipLength) \X (0 .. width - 1) :
                            /\ missFree(vertical(rc[1], rc[2]))
                            /\ isConsistentWithHits(vertical(rc[1], rc[2]), hitList)}}

\* validPlacements of each entry of remainingShips, in list order (each entry
\* of the list has its own set, duplicates of a length included).
validPlacementsOf(height, width, hitList, missList, ships) ==
  Table([i \in DOMAIN ships |->
           generateValidPlacements(height, width, ships[i], hitList, missList)])

\* Variant: only the horizontal placements increment the counter.
cellHorizontalCount(P, cell) ==
  SumOver([i \in DOMAIN P |->
             Cardinality({p \in P[i] : /\ p.direction = "horizontal"
                                       /\ isCoordinateInList(cell, p.cells)})],
          DOMAIN P)

\* cellPlacementCount[row][col] and totalPlacements after the loop over
\* remainingShips; P is validPlacementsOf(...).
cellPlacementCount(P, cell) ==
  SumOver([i \in DOMAIN P |->
             Cardinality({p \in P[i] : isCoordinateInList(cell, p.cells)})],
          DOMAIN P)

totalPlacements(P) == SumOver([i \in DOMAIN P |-> Cardinality(P[i])], DOMAIN P)

\* Variant: only the misses are skipped in the division loop.
BaseMapHitsKept(height, width, hitList, missList, P) ==
  Reduce([n |-> [c \in Cells(height, width) |->
                   IF isCoordinateInList(c, missList) THEN 0
                   ELSE cellPlacementCount(P, c)],
          d |-> totalPlacements(P)])

\* The map after the division loop (lines 142-152), before any heuristic;
\* the caller has checked totalPlacements(P) > 0.
BaseMap(height, width, hitList, missList, P) ==
  Reduce([n |-> [c \in Cells(height, width) |->
                   IF isCoordinateInList(c, hitList) \/ isCoordinateInList(c, missList)
                   THEN 0
                   ELSE cellPlacementCount(P, c)],
          d |-> totalPlacements(P)])

(***************************************************************************)
(* Final normalisation.                                                    *)
(***************************************************************************)
\* Variant: division by validCells instead of sum.
normalizeMapByCount(M) ==
  LET positive == {c \in DOMAIN M.n : M.n[c] > 0}
  IN IF positive = {} THEN M
     ELSE Reduce([n |-> M.n, d |-> M.d * Cardinality(positive)])

normalizeMap(M) ==
  LET positive == {c \in DOMAIN M.n : M.n[c] > 0}
      sum == SumOver(M.n, positive)
  IN IF positive = {} \/ sum = 0 THEN M
     ELSE Reduce([n |-> M.n, d |-> sum])

(***************************************************************************)
(* Checkerboard damping.                                                   *)
(***************************************************************************)
\* Variant: the cells of even row + column are the ones halved.
applyCheckerboardOnEven(M) ==
  BoostCells(M, {c \in DOMAIN M.n : (c[1] + c[2]) % 2 = 0}, 1, 2)

applyCheckerboardPattern(M) ==
  BoostCells(M, {c \in DOMAIN M.n : (c[1] + c[2]) % 2 = 1}, 1, 2)

(***************************************************************************)
(* Alignment analysis.                                                     *)
(***************************************************************************)
\* Keys of a Map filled in list order: the distinct values of coordinate
\* ax (1 = row, 2 = column) in order of first appearance.
RECURSIVE keysInOrder(_, _, _)
keysInOrder(hitList, ax, seen) ==
  IF hitList = <<>> THEN <<>>
  ELSE IF Head(hitList)[ax] \in seen
       THEN keysInOrder(Tail(hitList), ax, seen)
       ELSE <<Head(hitList)[ax]>>
            \o keysInOrder(Tail(hitList), ax, seen \cup {Head(hitList)[ax]})

\* Array.prototype.sort with comparator a[ax] - b[ax] (stable).
RECURSIVE insertSorted(_, _, _)
insertSorted(sorted, x, ax) ==
  IF sorted = <<>> THEN <<x>>
  ELSE IF x[ax] < Head(sorted)[ax] THEN <<x>> \o sorted
       ELSE <<Head(sorted)>> \o insertSorted(Tail(sorted), x, ax)

RECURSIVE sortBy(_, _)
sortBy(list, ax) ==
  IF list = <<>> THEN <<>>
  ELSE insertSorted(sortBy(SubSeq(list, 1, Len(list) - 1), ax), list[Len(list)], ax)

\* The loop "for (let i = 1; i <= rowHits.length; i++)" over one sorted
\* line of hits, with 1-based indices: start is the first index of the
\* current run, i the index under test.
RECURSIVE consecutiveRuns(_, _, _, _, _)
consecutiveRuns(line, ax, direction, start, i) ==
  IF i > Len(line) + 1 THEN <<>>
  ELSE IF i = Len(line) + 1 \/ line[i][ax] > line[i - 1][ax] + 1
       THEN (IF i - start >= 2
             THEN <<[direction |-> direction,
                     coordinates |-> SubSeq(line, start, i - 1)]>>
             ELSE <<>>)
            \o consecutiveRuns(line, ax, direction, i, i + 1)
       ELSE consecutiveRuns(line, ax, direction, start, i + 1)

\* Groups of one direction: key is the coordinate shared by a line (1 for
\* rows), ax the coordinate that varies along it.
RECURSIVE groupsOfLines(_, _, _, _, _)
groupsOfLines(hitList, keys, key, ax, direction) ==
  IF keys = <<>> THEN <<>>
  ELSE LET line == SelectSeq(hitList, LAMBDA h : h[key] = Head(keys))
       IN (IF Len(line) < 2 THEN <<>>
           ELSE consecutiveRuns(sortBy(line, ax), ax, direction, 1, 2))
          \o groupsOfLines(hitList, Tail(keys), key, ax, direction)

\* Variant: the rows only.
findAlignedRows(hitList) ==
  groupsOfLines(hitList, keysInOrder(hitList, 1, {}), 1, 2, "horizontal")

findAlignedHits(hitList) ==
  groupsOfLines(hitList, keysInOrder(hitList, 1, {}), 1, 2, "horizontal")
  \o groupsOfLines(hitList, keysInOrder(hitList, 2, {}), 2, 1, "vertical")

\* Variant: a miss beyond the far end is not looked for.
getExtensionPointsFarOpen(coordinates, direction, height, width, missList) ==
  IF direction = "horizontal"
  THEN LET sorted == sortBy(coordinates, 2)
           row == sorted[1][1]
           minCol == sorted[1][2]
           maxCol == sorted[Len(sorted)][2]
       IN (IF minCol > 0 /\ ~isCoordinateInList(<<row, minCol - 1>>, missList)
           THEN <<<<row, minCol - 1>>>> ELSE <<>>)
          \o (IF maxCol < width - 1 THEN <<<<row, maxCol + 1>>>> ELSE <<>>)
  ELSE LET sorted == sortBy(coordinates, 1)
           col == sorted[1][2]
           minRow == sorted[1][1]
           maxRow == sorted[Len(sorted)][1]
       IN (IF minRow > 0 /\ ~isCoordinateInList(<<minRow - 1, col>>, missList)
           THEN <<<<minRow - 1, col>>>> ELSE <<>>)
          \o (IF maxRow < height - 1 THEN <<<<maxRow + 1, col>>>> ELSE <<>>)

getExtensionPoints(coordinates, direction, height, width, missList) ==
  IF direction = "horizontal"
  THEN LET sorted == sortBy(coordinates, 2)
           row == sorted[1][1]
           minCol == sorted[1][2]
           maxCol == sorted[Len(sorted)][2]
       IN (IF minCol > 0 /\ ~isCoordinateInList(<<row, minCol - 1>>, missList)
           THEN <<<<row, minCol - 1>>>> ELSE <<>>)
          \o (IF maxCol < width - 1
                 /\ ~isCoordinateInList(<<row, maxCol + 1>>, missList)
              THEN <<<<row, maxCol + 1>>>> ELSE <<>>)
  ELSE LET sorted == sortBy(coordinates, 1)
           col == sorted[1][2]
           minRow == sorted[1][1]
           maxRow == sorted[Len(sorted)][1]
       IN (IF minRow > 0 /\ ~isCoordinateInList(<<minRow - 1, col>>, missList)
           THEN <<<<minRow - 1, col>>>> ELSE <<>>)
          \o (IF maxRow < height - 1
                 /\ ~isCoordinateInList(<<maxRow + 1, col>>, missList)
              THEN <<<<maxRow + 1, col>>>> ELSE <<>>)

\* The cells the code collects in adjacentCells (each at most once).
getAdjacentCells(height, width, hitList, missList) ==
  {c \in Cells(height, width) :
     /\ \E i \in DOMAIN hitList : \E dir \in ADJACENT_DIRECTIONS :
          c = <<hitList[i][1] + dir[1], hitList[i][2] + dir[2]>>
     /\ ~isCoordinateInList(c, hitList)
     /\ ~isCoordinateInList(c, missList)}

\* How many times the cell is listed among the extension points of the
\* groups (a cell that extends two groups is listed, and boosted, twice).
extensionCount(groups, height, width, missList, cell) ==
  Cardinality({i \in DOMAIN groups :
                 isCoordinateInList(cell,
                   getExtensionPoints(groups[i].coordinates, groups[i].direction,
                                      height, width, missList))})

findSmallestRemainingShip(M, height, width) ==
  LET rowRuns == {j - i + 1 : <<r, i, j>> \in
                    {t \in (0 .. height - 1) \X (0 .. width - 1) \X (0 .. width - 1) :
                       t[2] <= t[3] /\ \A k \in t[2] .. t[3] : M.n[<<t[1], k>>] > 0}}
      colRuns == {j - i + 1 : <<c, i, j>> \in
                    {t \in (0 .. width - 1) \X (0 .. height - 1) \X (0 .. height - 1) :
                       t[2] <= t[3] /\ \A k \in t[2] .. t[3] : M.n[<<k, t[1]>>] > 0}}
      maxConsecutiveEmpty == SetMax({0} \cup rowRuns \cup colRuns)
  IN IF maxConsecutiveEmpty > 2 THEN Min(maxConsecutiveEmpty, 5) ELSE 2

\* The groups whose extension points findPotentialCompletions returns.
completionGroups(hitList, shipSize) ==
  SelectSeq(findAlignedHits(hitList),
            LAMBDA g : Len(g.coordinates) < shipSize
                       /\ Len(g.coordinates) = shipSize - 1)

\* Multiply by factor every positive cell findPotentialCompletions lists,
\* once per listing.
boostCompletions(M, height, width, hitList, missList, factor) ==
  LET groups == completionGroups(hitList,
                                 findSmallestRemainingShip(M, height, width))
  IN Boost(M, [c \in DOMAIN M.n |->
                 IF M.n[c] > 0
                 THEN extensionCount(groups, height, width, missList, c) ELSE 0],
           factor, 1)

(***************************************************************************)
(* Heuristic strategies.                                                   *)
(***************************************************************************)
\* Variant: the adjacency boost of the else branch left out.
applyTargetingWithoutAdjacency(M, height, width, hitList, missList) ==
  IF Len(hitList) = 0 THEN M
  ELSE LET alignedHits == findAlignedHits(hitList)
       IN IF Len(alignedHits) >= 2
          THEN LET extensions ==
                     getExtensionPoints(alignedHits[1].coordinates,
                                        alignedHits[1].direction,
                                        height, width, missList)
               IN BoostCells(M, {extensions[i] : i \in DOMAIN extensions},
                             ALIGNMENT_FACTOR, 1)
          ELSE boostCompletions(M, height, width, hitList, missList,
                                COMPLETION_FACTOR)

applyTargetingStrategy(M, height, width, hitList, missList) ==
  IF Len(hitList) = 0 THEN M
  ELSE LET alignedHits == findAlignedHits(hitList)
       IN IF Len(alignedHits) >= 2
          THEN LET extensions ==
                     getExtensionPoints(alignedHits[1].coordinates,
                                        alignedHits[1].direction,
                                        height, width, missList)
               IN BoostCells(M, {extensions[i] : i \in DOMAIN extensions},
                             ALIGNMENT_FACTOR, 1)
          ELSE boostCompletions(
                 BoostCells(M, getAdjacentCells(height, width, hitList, missList),
                            ADJACENCY_FACTOR, 1),
                 height, width, hitList, missList, COMPLETION_FACTOR)

\* How many times the two corner tests of the double loop over the hits
\* select the cell: once per ordered pair (hit1, hit2) for corner1 and once
\* for corner2.
cornerCount(height, width, hitList, missList, cell) ==
  LET pairs == {ij \in (DOMAIN hitList) \X (DOMAIN hitList) :
                  /\ hitList[ij[1]] # hitList[ij[2]]
                  /\ hitList[ij[1]][1] # hitList[ij[2]][1]
                  /\ hitList[ij[1]][2] # hitList[ij[2]][2]}
      open(c) == /\ isValidCell(c[1], c[2], height, width)
                 /\ ~isCoordinateInList(c, hitList)
                 /\ ~isCoordinateInList(c, missList)
      corner1(ij) == <<hitList[ij[1]][1], hitList[ij[2]][2]>>
      corner2(ij) == <<hitList[ij[2]][1], hitList[ij[1]][2]>>
  IN Cardinality({ij \in pairs : corner1(ij) = cell /\ open(cell)})
     + Cardinality({ij \in pairs : corner2(ij) = cell /\ open(cell)})

\* The corner boost by a / b; a zero cell stays zero whatever its count.
boostCorners(M, height, width, hitList, missList, a, b) ==
  Boost(M, [c \in DOMAIN M.n |->
              IF M.n[c] > 0 THEN cornerCount(height, width, hitList, missList, c)
              ELSE 0],
        a, b)

\* The corner factor 1.5 is SuperPatternNum / SuperPatternDen.
SuperPatternNum == 3
SuperPatternDen == 2

applyPatternRecognition(M, height, width, hitList, missList) ==
  boostCorners(M, height, width, hitList, missList,
               SuperPatternNum, SuperPatternDen)

applySuperAggressiveStrategy(M, height, width, hitList, missList) ==
  IF Len(hitList) = 0 THEN applyCheckerboardPattern(M)
  ELSE LET alignedHits == findAlignedHits(hitList)
           extended ==
             IF Len(alignedHits) >= 2
             THEN Boost(M, [c \in DOMAIN M.n |->
                              IF M.n[c] > 0
                              THEN extensionCount(alignedHits, height, width,
                                                  missList, c)
                              ELSE 0],
                        SUPER_ALIGNMENT_FACTOR, 1)
             ELSE BoostCells(M, getAdjacentCells(height, width, hitList, missList),
                             SUPER_ADJACENCY_FACTOR, 1)
           completed == boostCompletions(extended, height, width, hitList,
                                         missList, SUPER_COMPLETION_FACTOR)
       IN applyPatternRecognition(completed, height, width, hitList, missList)

getActiveHits(hitList, sunk) ==
  SelectSeq(hitList,
            LAMBDA hit : ~\E s \in DOMAIN sunk :
                            isCoordinateInList(hit, sunk[s].positions))

\* The grid boost is 2.0, the corner factor 0.5 = 1 / CornerDen and the
\* centre factor 1.25 = CenterNum / CenterDen; StandardSize is the board
\* size the corner and centre adjustments are written for.
GridFactor == 2
CornerDen == 2
CenterNum == 5
CenterDen == 4
StandardSize == 10

\* Variant: the corner and centre adjustments made on every board size.
applyInitialPatternAnyBoard(M, height, width, ships) ==
  LET smallestShip == SetMin({ships[i] : i \in DOMAIN ships})
      optimalSpacing == Max(2, smallestShip - 1)
      grid == {c \in DOMAIN M.n :
                 \/ c[1] % optimalSpacing = 0 /\ c[2] % optimalSpacing = 0
                 \/ c[1] % optimalSpacing = 1 /\ c[2] % optimalSpacing = 1}
      gridded == BoostCells(M, grid, GridFactor, 1)
      cornerAreas == {<<0, 0>>, <<0, 1>>, <<1, 0>>,
                      <<0, width - 1>>, <<0, width - 2>>, <<1, width - 1>>,
                      <<height - 1, 0>>, <<height - 2, 0>>, <<height - 1, 1>>,
                      <<height - 1, width - 1>>, <<height - 1, width - 2>>,
                      <<height - 2, width - 1>>}
      centerRow == height \div 2
      centerCol == width \div 2
      center == {c \in DOMAIN M.n :
                   /\ c[1] >= centerRow - 1 /\ c[1] <= centerRow + 1
                   /\ c[2] >= centerCol - 1 /\ c[2] <= centerCol + 1}
  IN BoostCells(BoostCells(gridded, cornerAreas, 1, CornerDen),
                center, CenterNum, CenterDen)

applyOptimalInitialPattern(M, height, width, ships) ==
  LET smallestShip == SetMin({ships[i] : i \in DOMAIN ships})
      optimalSpacing == Max(2, smallestShip - 1)
      grid == {c \in DOMAIN M.n :
                 \/ c[1] % optimalSpacing = 0 /\ c[2] % optimalSpacing = 0
                 \/ c[1] % optimalSpacing = 1 /\ c[2] % optimalSpacing = 1}
      gridded == BoostCells(M, grid, GridFactor, 1)
      cornerAreas == {<<0, 0>>, <<0, 1>>, <<1, 0>>,
                      <<0, width - 1>>, <<0, width - 2>>, <<1, width - 1>>,
                      <<height - 1, 0>>, <<height - 2, 0>>, <<height - 1, 1>>,
                      <<height - 1, width - 1>>, <<height - 1, width - 2>>,
                      <<height - 2, width - 1>>}
      centerRow == height \div 2
      centerCol == width \div 2
      center == {c \in DOMAIN M.n :
                   /\ c[1] >= centerRow - 1 /\ c[1] <= centerRow + 1
                   /\ c[2] >= centerCol - 1 /\ c[2] <= centerCol + 1}
  IN IF height = StandardSize /\ width = StandardSize
     THEN BoostCells(BoostCells(gridded, cornerAreas, 1, CornerDen),
                     center, CenterNum, CenterDen)
     ELSE gridded

\* informationGain of one cell: the placements of every remaining ship
\* through the cell whose other cells hold no miss.
informationGain(height, width, missList, ships, cell) ==
  LET row == cell[1]
      col == cell[2]
      through(shipLength) ==
        Cardinality({i \in Max(0, col - shipLength + 1) .. col :
                       /\ i + shipLength - 1 < width
                       /\ \A j \in i .. i + shipLength - 1 :
                            j = col \/ ~isCoordinateInList(<<row, j>>, missList)})
        + Cardinality({i \in Max(0, row - shipLength + 1) .. row :
                         /\ i + shipLength - 1 < height
                         /\ \A j \in i .. i + shipLength - 1 :
                              j = row \/ ~isCoordinateInList(<<j, col>>, missList)})
  IN SumOver([s \in DOMAIN ships |-> through(ships[s])], DOMAIN ships)

\* Variant: the blend made at every cell, zero or not.
applyInformationEntropyEveryCell(M, height, width, hitList, missList, ships) ==
  IF Len(findAlignedHits(hitList)) >= 2 THEN M
  ELSE LET entropyMap == [c \in DOMAIN M.n |->
                            informationGain(height, width, missList, ships, c)]
           maxEntropy == SetMax({entropyMap[c] : c \in DOMAIN M.n})
           keep == EntropyWeightDen - EntropyWeightNum
       IN IF maxEntropy > 0
          THEN Reduce([n |-> [c \in DOMAIN M.n |->
                                keep * M.n[c] * maxEntropy
                                + EntropyWeightNum * entropyMap[c] * M.d],
                       d |-> EntropyWeightDen * M.d * maxEntropy])
          ELSE Reduce([n |-> [c \in DOMAIN M.n |-> keep * M.n[c]],
                       d |-> EntropyWeightDen * M.d])

applyInformationEntropy(M, height, width, hitList, missList, ships) ==
  IF Len(findAlignedHits(hitList)) >= 2 THEN M
  ELSE LET entropyMap == [c \in DOMAIN M.n |->
                            IF M.n[c] = 0 THEN 0
                            ELSE informationGain(height, width, missList, ships, c)]
           maxEntropy == SetMax({entropyMap[c] : c \in DOMAIN M.n})
           keep == EntropyWeightDen - EntropyWeightNum
       IN IF maxEntropy > 0
          THEN Reduce([n |-> [c \in DOMAIN M.n |->
                                IF M.n[c] > 0
                                THEN keep * M.n[c] * maxEntropy
                                     + EntropyWeightNum * entropyMap[c] * M.d
                                ELSE 0],
                       d |-> EntropyWeightDen * M.d * maxEntropy])
          ELSE Reduce([n |-> [c \in DOMAIN M.n |-> keep * M.n[c]],
                       d |-> EntropyWeightDen * M.d])

\* The "+" boost of the enhanced pattern pass is 2.0.
CrossFactor == 2

applyEnhancedPatternRecognition(M, height, width, hitList, missList) ==
  LET crossCount(c) ==
        Cardinality({hd \in (DOMAIN hitList) \X ADJACENT_DIRECTIONS :
                       c = <<hitList[hd[1]][1] + hd[2][1],
                             hitList[hd[1]][2] + hd[2][2]>>})
      crossed == Boost(M, [c \in DOMAIN M.n |->
                             IF /\ M.n[c] > 0
                                /\ ~isCoordinateInList(c, hitList)
                                /\ ~isCoordinateInList(c, missList)
                             THEN crossCount(c) ELSE 0],
                       CrossFactor, 1)
  IN boostCorners(crossed, height, width, hitList, missList,
                  OPTIMIZED_PATTERN_FACTOR, 1)

\* The boosts of applyOptimizedStrategy for a non-empty list of active
\* hits (lines 942-993): the map handed to applyInformationEntropy.
optimizedBoosts(M, height, width, activeHits, missList) ==
  LET alignedHits == findAlignedHits(activeHits)
      extended ==
        Boost(M, [c \in DOMAIN M.n |->
                    IF M.n[c] > 0
                    THEN extensionCount(alignedHits, height, width, missList, c)
                    ELSE 0],
              OPTIMIZED_ALIGNMENT_FACTOR, 1)
      isolatedHits ==
        SelectSeq(activeHits,
                  LAMBDA hit : ~\E g \in DOMAIN alignedHits :
                                  isCoordinateInList(hit, alignedHits[g].coordinates))
      adjacent ==
        IF Len(isolatedHits) > 0
        THEN BoostCells(extended,
                        getAdjacentCells(height, width, isolatedHits, missList),
                        OPTIMIZED_ADJACENCY_FACTOR, 1)
        ELSE extended
      completed == boostCompletions(adjacent, height, width, activeHits, missList,
                                    OPTIMIZED_COMPLETION_FACTOR)
  IN applyEnhancedPatternRecognition(completed, height, width,
                                     activeHits, missList)

applyOptimizedStrategy(M, height, width, hitList, missList, ships, sunk) ==
  LET activeHits == getActiveHits(hitList, sunk)
  IN IF Len(activeHits) = 0
     THEN applyOptimalInitialPattern(M, height, width, ships)
     ELSE applyInformationEntropy(
            optimizedBoosts(M, height, width, activeHits, missList),
            height, width, hitList, missList, ships)

\* The NORMAL branch: Math.min(1.0, p * ADJACENCY_FACTOR) on adjacent cells.
applyAdjacencyBonus(M, height, width, hitList, missList) ==
  LET adjacentCells == getAdjacentCells(height, width, hitList, missList)
  IN Reduce([n |-> [c \in DOMAIN M.n |->
                      IF c \in adjacentCells
                      THEN Min(M.d, M.n[c] * ADJACENCY_FACTOR) ELSE M.n[c]],
             d |-> M.d])

(***************************************************************************)
(* The entry point.                                                        *)
(***************************************************************************)
\* Variant: no automatic switch to targeting.
effectiveModeAsGiven(m, hitList) == m

\* Variant: the switch to targeting is remembered from one call to the next
\* (mode as a module-level variable that an earlier call has reassigned).
effectiveModeRemembered(m, hitList) ==
  IF (m = NORMAL /\ Len(hitList) > 0) \/ calls > 0 THEN TARGETING ELSE m

\* Lines 103-106: the mode the dispatch uses.
effectiveMode(m, hitList) ==
  IF m = NORMAL /\ Len(hitList) > 0 THEN TARGETING ELSE m

applyStrategy(M, height, width, hitList, missList, ships, m, sunk) ==
  CASE m = HUNTING -> applyCheckerboardPattern(M)
    [] m = TARGETING -> applyTargetingStrategy(M, height, width, hitList, missList)
    [] m = SUPER_AGGRESSIVE ->
         applySuperAggressiveStrategy(M, height, width, hitList, missList)
    [] m = OPTIMIZED ->
         applyOptimizedStrategy(M, height, width, hitList, missList, ships, sunk)
    [] OTHER -> applyAdjacencyBonus(M, height, width, hitList, missList)

calculateProbabilityMap(height, width, hitList, missList, ships, m, sunk) ==
  IF Len(ships) = 0 THEN ZeroMap(height, width)
  ELSE LET P == validPlacementsOf(height, width, hitList, missList, ships)
       IN IF totalPlacements(P) = 0 THEN ZeroMap(height, width)
          ELSE normalizeMap(
                 applyStrategy(BaseMap(height, width, hitList, missList, P),
                               height, width, hitList, missList, ships,
                               effectiveMode(m, hitList), sunk))

(***************************************************************************)
(* The inputs drawn in Init.                                               *)
(***************************************************************************)
Range(list) == {list[i] : i \in DOMAIN list}

\* The sequences of at most n distinct elements of S, in every order.
RECURSIVE InjectiveSeqs(_, _)
InjectiveSeqs(S, n) ==
  IF n = 0 THEN {<<>>}
  ELSE LET shorter == InjectiveSeqs(S, n - 1)
       IN shorter \cup {Append(t, x) : <<t, x>> \in
                          {tx \in {u \in shorter : Len(u) = n - 1} \X S :
                             tx[2] \notin Range(tx[1])}}

\* The cells of a set as a list, in row-major order.
RECURSIVE RowMajor(_)
RowMajor(S) ==
  IF S = {} THEN <<>>
  ELSE LET first == CHOOSE x \in S :
                      \A y \in S : x[1] < y[1] \/ (x[1] = y[1] /\ x[2] <= y[2])
       IN <<first>> \o RowMajor(S \ {first})

\* The lists of at most n ship lengths, longest first.
RECURSIVE ShipLists(_)
ShipLists(n) ==
  IF n = 0 THEN {<<>>}
  ELSE LET shorter == ShipLists(n - 1)
       IN shorter \cup {Append(t, L) : <<t, L>> \in
                          {tl \in {u \in shorter : Len(u) = n - 1} \X (1 .. MaxShipLen) :
                             Len(tl[1]) = 0 \/ tl[2] <= tl[1][Len(tl[1])]}}

\* A sunk ship lies on a straight unbroken line of cells that were all hit.
StraightLine(T) ==
  \/ /\ \A x, y \in T : x[1] = y[1]
     /\ \A x, y \in T : \A k \in x[2] .. y[2] : <<x[1], k>> \in T
  \/ /\ \A x, y \in T : x[2] = y[2]
     /\ \A x, y \in T : \A k \in x[1] .. y[1] : <<k, x[2]>> \in T

\* No ship sunk yet, or one.
SunkShipLists(hitList) ==
  {<<>>} \cup {<<[length |-> Cardinality(T), positions |-> RowMajor(T)]>> :
                 T \in {U \in SUBSET Range(hitList) : U # {} /\ StraightLine(U)}}

NoMap == [n |-> <<>>, d |-> 0]

(***************************************************************************)
(* The game component before handleGameStart: phase "setup", no players.   *)
(***************************************************************************)
\* The grid of the setup form is at least 5 x 5.
MinGridSize == 5

\* null, for a player and for the selected cell.
NoPlayer == [board |-> <<>>, ships |-> <<>>, hits |-> <<>>, misses |-> <<>>,
             sunkShips |-> <<>>]

NoCell == <<>>

NoStats == [totalShots |-> 0, hits |-> 0, misses |-> 0]

SetupState ==
  [rows |-> 10, cols |-> 10, shipLengths |-> <<>>, developerMode |-> FALSE,
   manualFeedbackMode |-> FALSE, probabilityMode |-> NORMAL,
   gamePhase |-> "setup", player1 |-> NoPlayer, player2 |-> NoPlayer,
   gameStats |-> NoStats, selectedCell |-> NoCell]

NoPatterns == [hits |-> <<>>, sunkShips |-> <<>>, alignedGroups |-> <<>>,
               isolatedHits |-> <<>>]

NoEvent == [handler |-> "none", cell |-> NoCell, result |-> "none", confirmed |-> 0]

\* The game component is not part of the specifications of the engine.
NoGame == gameState = SetupState /\ hitPatterns = NoPatterns /\ event = NoEvent

\* Every input within the bounds: hits in any order without repetition,
\* misses disjoint from the hits.
InitBounded ==
  /\ boardHeight \in 1 .. MaxHeight
  /\ boardWidth \in 1 .. MaxWidth
  /\ hits \in InjectiveSeqs(Cells(boardHeight, boardWidth), MaxHits)
  /\ misses \in {RowMajor(S) :
                   S \in {T \in SUBSET (Cells(boardHeight, boardWidth) \ Range(hits)) :
                            Cardinality(T) <= MaxMisses}}
  /\ remainingShips \in ShipLists(MaxShips)
  /\ mode \in ProbabilityMode
  /\ sunkShips \in SunkShipLists(hits)
  /\ pc = "call"
  /\ probabilityMap = NoMap
  /\ calls = 0
  /\ NoGame

\* The example of the module's closing comment (lines 1277-1288).
InitExample ==
  /\ boardHeight = 10
  /\ boardWidth = 10
  /\ hits = <<<<2, 3>>, <<2, 4>>>>
  /\ misses = <<<<0, 0>>, <<1, 1>>, <<3, 3>>>>
  /\ remainingShips = <<5, 4, 3>>
  /\ mode \in ProbabilityMode
  /\ sunkShips = <<>>
  /\ pc = "call"
  /\ probabilityMap = NoMap
  /\ calls = 0
  /\ NoGame

Init == InitBounded \/ InitExample

\* Longer hit lists in every order on boards up to MaxHeight x WideWidth,
\* with no miss, no sunk ship and at most one remaining ship.
InitHits ==
  /\ boardHeight \in 1 .. MaxHeight
  /\ boardWidth \in 1 .. WideWidth
  /\ hits \in InjectiveSeqs(Cells(boardHeight, boardWidth), MaxOrderedHits)
  /\ misses = <<>>
  /\ remainingShips \in ShipLists(1)
  /\ mode \in ProbabilityMode
  /\ sunkShips = <<>>
  /\ pc = "call"
  /\ probabilityMap = NoMap
  /\ calls = 0
  /\ NoGame

\* The lists of at most n ship lengths up to OpenShipLen, longest first.
RECURSIVE OpenShipLists(_)
OpenShipLists(n) ==
  IF n = 0 THEN {<<>>}
  ELSE LET shorter == OpenShipLists(n - 1)
       IN shorter \cup {Append(t, L) : <<t, L>> \in
                          {tl \in {u \in shorter : Len(u) = n - 1} \X (1 .. OpenShipLen) :
                             Len(tl[1]) = 0 \/ tl[2] <= tl[1][Len(tl[1])]}}

\* The open sea: boards up to OpenSize x OpenSize and the standard board,
\* no miss, and no hit or the one hit (0, 0), sunk or not.
InitOpen ==
  /\ boardHeight \in (1 .. OpenSize) \cup {StandardSize}
  /\ boardWidth \in IF boardHeight = StandardSize THEN {StandardSize}
                    ELSE 1 .. OpenSize
  /\ hits \in {<<>>, <<<<0, 0>>>>}
  /\ misses = <<>>
  /\ remainingShips \in OpenShipLists(OpenShips)
  /\ mode \in ProbabilityMode
  /\ sunkShips \in SunkShipLists(hits)
  /\ pc = "call"
  /\ probabilityMap = NoMap
  /\ calls = 0
  /\ NoGame

\* Hits around a sunk ship: up to MaxSunkHits hits in row-major order, at
\* most one ship sunk, at most MaxSunkMisses misses, one remaining ship.
InitSunk ==
  /\ boardHeight \in 1 .. MaxHeight
  /\ boardWidth \in 1 .. MaxWidth
  /\ hits \in {RowMajor(S) :
                 S \in {T \in SUBSET Cells(boardHeight, boardWidth) :
                          Cardinality(T) <= MaxSunkHits}}
  /\ misses \in {RowMajor(S) :
                   S \in {T \in SUBSET (Cells(boardHeight, boardWidth) \ Range(hits)) :
                            Cardinality(T) <= MaxSunkMisses}}
  /\ remainingShips \in ShipLists(1)
  /\ mode \in ProbabilityMode
  /\ sunkShips \in SunkShipLists(hits)
  /\ pc = "call"
  /\ probabilityMap = NoMap
  /\ calls = 0
  /\ NoGame

(***************************************************************************)
(* The one operation: a call of calculateProbabilityMap.                   *)
(***************************************************************************)
Calculate ==
  /\ pc = "call"
  /\ probabilityMap' = calculateProbabilityMap(boardHeight, boardWidth, hits, misses,
                                               remainingShips, mode, sunkShips)
  /\ pc' = "return"
  /\ calls' = calls + 1
  /\ UNCHANGED <<boardHeight, boardWidth, hits, misses, remainingShips, mode,
                 sunkShips, gameState, hitPatterns, event>>

\* The caller asks again with the arguments it passed before (the game
\* component evaluates getProbabilityMap anew on every refresh of the map).
CallAgain ==
  /\ pc = "return"
  /\ calls < MaxCalls
  /\ pc' = "call"
  /\ UNCHANGED <<boardHeight, boardWidth, hits, misses, remainingShips, mode,
                 sunkShips, probabilityMap, calls, gameState, hitPatterns, event>>

Next == Calculate \/ CallAgain

Spec == Init /\ [][Next]_vars

SpecHits == InitHits /\ [][Next]_vars

SpecOpen == InitOpen /\ [][Next]_vars

SpecSunk == InitSunk /\ [][Next]_vars

(***************************************************************************)
(* The game component.  Its state changes in the event handlers; React     *)
(* applies the setState calls of one handler together, the last call of a  *)
(* setter winning, and every handler reads the state of the render it was  *)
(* created in.  The effect that writes the probabilities onto the cells of *)
(* player2.board copies their state and shipId and is left out.            *)
(***************************************************************************)
engineVars == <<boardHeight, boardWidth, hits, misses, remainingShips, mode,
                sunkShips, pc, probabilityMap, calls>>

emptyCell == [state |-> "empty", shipId |-> 0]

emptyBoard(boardRows, boardCols) == [c \in Cells(boardRows, boardCols) |-> emptyCell]

\* The runs a ship can be drawn on (start cell and orientation), among those
\* that lie in the corner of ReachRows x ReachCols cells.
shipRuns(boardRows, boardCols, shipLength) ==
  {[j \in 1 .. shipLength |-> <<start[1], start[2] + j - 1>>] :
     start \in (0 .. Min(boardRows, ReachRows) - 1)
               \X (0 .. Min(boardCols, ReachCols) - shipLength)}
  \cup {[j \in 1 .. shipLength |-> <<start[1] + j - 1, start[2]>>] :
          start \in (0 .. Min(boardRows, ReachRows) - shipLength)
                    \X (0 .. Min(boardCols, ReachCols) - 1)}

\* The ships placed one after the other, each on cells that are still empty.
RECURSIVE placeShips(_, _, _, _, _)
placeShips(boardRows, boardCols, ships, i, placedShips) ==
  IF i > Len(ships) THEN {placedShips}
  ELSE UNION {placeShips(boardRows, boardCols, ships, i + 1,
                         Append(placedShips,
                                [id |-> i, length |-> ships[i], positions |-> positions,
                                 hits |-> 0, isSunk |-> FALSE])) :
                positions \in {run \in shipRuns(boardRows, boardCols, ships[i]) :
                                 \A k \in DOMAIN placedShips :
                                   Range(run) \cap Range(placedShips[k].positions) = {}}}

\* Every outcome of the random placement.
generateRandomShipPlacements(boardRows, boardCols, ships) ==
  {[board |-> [c \in Cells(boardRows, boardCols) |->
                 IF \E k \in DOMAIN placedShips :
                      isCoordinateInList(c, placedShips[k].positions)
                 THEN [state |-> "ship",
                       shipId |-> CHOOSE k \in DOMAIN placedShips :
                                    isCoordinateInList(c, placedShips[k].positions)]
                 ELSE emptyCell],
    ships |-> placedShips] :
     placedShips \in placeShips(boardRows, boardCols, ships, 1, <<>>)}

\* Variant: the hits of sunk ships are analysed with the others.
analyzeAllHits(hitList, sunk) ==
  LET alignedGroups == findAlignedHits(hitList)
  IN [alignedGroups |-> alignedGroups,
      isolatedHits |-> SelectSeq(hitList,
                         LAMBDA hit : ~\E k \in DOMAIN alignedGroups :
                                         isCoordinateInList(hit, alignedGroups[k].coordinates))]

analyzeHitPatterns(hitList, sunk) ==
  LET activeHits == SelectSeq(hitList,
                      LAMBDA hit : ~\E s \in DOMAIN sunk :
                                      isCoordinateInList(hit, sunk[s].positions))
      alignedGroups == findAlignedHits(activeHits)
  IN [alignedGroups |-> alignedGroups,
      isolatedHits |-> SelectSeq(activeHits,
                         LAMBDA hit : ~\E k \in DOMAIN alignedGroups :
                                         isCoordinateInList(hit, alignedGroups[k].coordinates))]

\* The call of analyzeHitPatterns as hitPatterns records it.
analysisOf(hitList, sunk) ==
  LET found == analyzeHitPatterns(hitList, sunk)
  IN [hits |-> hitList, sunkShips |-> sunk,
      alignedGroups |-> found.alignedGroups, isolatedHits |-> found.isolatedHits]

\* Variant: no cell counts as targeted.
neverTargeted(targetCell) == FALSE

\* "targetCell.state === 'hit' || ... 'miss' || ... 'sunk'", the test of
\* handleCellSelect and of processAttack.
alreadyTargeted(targetCell) == targetCell.state \in {"hit", "miss", "sunk"}

\* The aligned groups that "might be a complete ship": as long as one of
\* shipLengths and as no ship sunk so far.
completeGroups(alignedGroups, shipLens, sunk) ==
  {k \in DOMAIN alignedGroups :
     /\ \E i \in DOMAIN shipLens : shipLens[i] = Len(alignedGroups[k].coordinates)
     /\ ~\E s \in DOMAIN sunk : sunk[s].length = Len(alignedGroups[k].coordinates)}

markSunk(board, positions) ==
  [c \in DOMAIN board |->
     IF isCoordinateInList(c, positions) THEN [board[c] EXCEPT !.state = "sunk"]
     ELSE board[c]]

\* processAttack on the state g of the render: the state after its setState
\* calls, and the analysis it made, if any.
processAttack(g, row, col, manualResult, patterns) ==
  IF g.gamePhase # "play" \/ g.player1 = NoPlayer \/ g.player2 = NoPlayer
  THEN [game |-> g, hitPatterns |-> patterns]
  ELSE
    LET targetCell == g.player2.board[<<row, col>>]
        newStats == [g.gameStats EXCEPT !.totalShots = @ + 1]
        update(newOpponentBoard, newOpponentShips, newPlayerHits, newPlayerMisses,
               newPlayerSunkShips, stats) ==
          [g EXCEPT !.player2 = [@ EXCEPT !.board = newOpponentBoard,
                                          !.ships = newOpponentShips],
                    !.player1 = [@ EXCEPT !.hits = newPlayerHits,
                                          !.misses = newPlayerMisses,
                                          !.sunkShips = newPlayerSunkShips],
                    !.gameStats = stats,
                    !.selectedCell = NoCell,
                    !.gamePhase =
                       IF g.developerMode
                          /\ \A i \in DOMAIN newOpponentShips : newOpponentShips[i].isSunk
                       THEN "gameOver" ELSE @]
        hitBoard == [g.player2.board EXCEPT ![<<row, col>>] =
                                              [targetCell EXCEPT !.state = "hit"]]
        missBoard == [g.player2.board EXCEPT ![<<row, col>>] =
                                               [targetCell EXCEPT !.state = "miss"]]
        hitStats == [newStats EXCEPT !.hits = @ + 1]
        missStats == [newStats EXCEPT !.misses = @ + 1]
        missed == update(missBoard, g.player2.ships, g.player1.hits,
                         Append(g.player1.misses, <<row, col>>),
                         g.player1.sunkShips, missStats)
    IN IF alreadyTargeted(targetCell) THEN [game |-> g, hitPatterns |-> patterns]
       ELSE IF g.manualFeedbackMode /\ manualResult # "none"
       THEN IF manualResult = "hit"
            THEN LET newPlayerHits == Append(g.player1.hits, <<row, col>>)
                     found == analysisOf(newPlayerHits, g.player1.sunkShips)
                     complete == completeGroups(found.alignedGroups, g.shipLengths,
                                                g.player1.sunkShips)
                 IN [game |->
                       IF complete = {}
                       THEN update(hitBoard, g.player2.ships, newPlayerHits,
                                   g.player1.misses, g.player1.sunkShips, hitStats)
                       ELSE LET coordinates ==
                                  found.alignedGroups[SetMin(complete)].coordinates
                                sunkShip == [length |-> Len(coordinates),
                                             positions |-> coordinates]
                            IN update(markSunk(hitBoard, coordinates), g.player2.ships,
                                      newPlayerHits, g.player1.misses,
                                      Append(g.player1.sunkShips, sunkShip), hitStats),
                     hitPatterns |-> found]
            ELSE [game |-> missed, hitPatterns |-> patterns]
       ELSE IF g.developerMode
       THEN IF targetCell.state = "ship"
            THEN LET shipIndex == CHOOSE i \in DOMAIN g.player2.ships :
                                    g.player2.ships[i].id = targetCell.shipId
                     old == g.player2.ships[shipIndex]
                     sinks == old.hits + 1 = old.length
                     ship == [old EXCEPT !.hits = @ + 1,
                                         !.isSunk = IF sinks THEN TRUE ELSE @]
                     newOpponentShips == [g.player2.ships EXCEPT ![shipIndex] = ship]
                     newPlayerHits == Append(g.player1.hits, <<row, col>>)
                 IN [game |->
                       IF sinks
                       THEN update(markSunk(hitBoard, ship.positions), newOpponentShips,
                                   newPlayerHits, g.player1.misses,
                                   Append(g.player1.sunkShips,
                                          [length |-> ship.length,
                                           positions |-> ship.positions]),
                                   hitStats)
                       ELSE update(hitBoard, newOpponentShips, newPlayerHits,
                                   g.player1.misses, g.player1.sunkShips, hitStats),
                     hitPatterns |-> patterns]
            ELSE [game |-> missed, hitPatterns |-> patterns]
       ELSE [game |-> update(g.player2.board, g.player2.ships, g.player1.hits,
                             g.player1.misses, g.player1.sunkShips, newStats),
             hitPatterns |-> patterns]

\* The configurations of the setup form that are drawn.
Difficulties == {"normal", "hard", "optimized"}

GameConfigs ==
  [gridSize : [rows : {MinGridSize}, cols : {MinGridSize}],
   shipLengths : ShipLists(MaxShips) \ {<<>>},
   developerMode : BOOLEAN,
   difficulty : Difficulties]

InitGame ==
  /\ boardHeight = 1
  /\ boardWidth = 1
  /\ hits = <<>>
  /\ misses = <<>>
  /\ remainingShips = <<>>
  /\ mode = NORMAL
  /\ sunkShips = <<>>
  /\ pc = "idle"
  /\ probabilityMap = NoMap
  /\ calls = 0
  /\ NoGame

handleGameStart ==
  /\ gameState.gamePhase = "setup"
  /\ \E config \in GameConfigs :
       \E opponent \in IF config.developerMode
                       THEN generateRandomShipPlacements(config.gridSize.rows,
                                                         config.gridSize.cols,
                                                         config.shipLengths)
                       ELSE {[board |-> emptyBoard(config.gridSize.rows,
                                                   config.gridSize.cols),
                              ships |-> <<>>]} :
         gameState' =
           [rows |-> config.gridSize.rows,
            cols |-> config.gridSize.cols,
            shipLengths |-> config.shipLengths,
            developerMode |-> config.developerMode,
            manualFeedbackMode |-> ~config.developerMode,
            probabilityMode |-> IF config.difficulty = "hard" THEN SUPER_AGGRESSIVE
                                ELSE IF config.difficulty = "optimized" THEN OPTIMIZED
                                ELSE NORMAL,
            gamePhase |-> "play",
            player1 |-> [board |-> emptyBoard(config.gridSize.rows, config.gridSize.cols),
                         ships |-> <<>>, hits |-> <<>>, misses |-> <<>>,
                         sunkShips |-> <<>>],
            player2 |-> [board |-> opponent.board, ships |-> opponent.ships,
                         hits |-> <<>>, misses |-> <<>>, sunkShips |-> <<>>],
            gameStats |-> NoStats,
            selectedCell |-> gameState.selectedCell]
  /\ event' = [NoEvent EXCEPT !.handler = "handleGameStart"]
  /\ UNCHANGED hitPatterns
  /\ UNCHANGED engineVars

\* A click on a cell of the board of the play phase.
handleCellSelect ==
  /\ gameState.gamePhase = "play"
  /\ \E cell \in Cells(Min(gameState.rows, ReachRows), Min(gameState.cols, ReachCols)) :
       LET targetCell == gameState.player2.board[cell]
           attacked == processAttack(gameState, cell[1], cell[2], "none", hitPatterns)
       IN /\ alreadyTargeted(targetCell) \/ gameState.gameStats.totalShots < MaxShots
          /\ event' = [NoEvent EXCEPT !.handler = "handleCellSelect", !.cell = cell]
          /\ IF alreadyTargeted(targetCell)
             THEN UNCHANGED <<gameState, hitPatterns>>
             ELSE IF gameState.manualFeedbackMode
             THEN /\ gameState' = [gameState EXCEPT !.selectedCell = cell]
                  /\ UNCHANGED hitPatterns
             ELSE /\ gameState' = attacked.game
                  /\ hitPatterns' = attacked.hitPatterns
  /\ UNCHANGED engineVars

\* A click on the Hit or the Miss button, shown while a cell is selected,
\* with the answers to confirm(): confirmed is the group the user said yes
\* to after saying no to the groups asked about before it, or 0.
handleManualFeedback ==
  /\ gameState.gamePhase = "play"
  /\ gameState.manualFeedbackMode
  /\ gameState.selectedCell # NoCell
  /\ \E result \in {"hit", "miss"} :
       LET g == gameState
           selectedCell == g.selectedCell
           attacked == processAttack(g, selectedCell[1], selectedCell[2], result,
                                     hitPatterns)
           found == analysisOf(Append(g.player1.hits, selectedCell), g.player1.sunkShips)
           complete == completeGroups(found.alignedGroups, g.shipLengths,
                                      g.player1.sunkShips)
       IN IF result = "hit" /\ g.player1 # NoPlayer
          THEN \E confirmed \in {0} \cup complete :
                 /\ gameState' =
                      IF confirmed = 0 THEN attacked.game
                      ELSE LET coordinates == found.alignedGroups[confirmed].coordinates
                           IN [attacked.game EXCEPT
                                 \* setPlayer1({...player1, sunkShips: ...}) with the
                                 \* player1 of the render, after that of processAttack.
                                 !.player1 = [g.player1 EXCEPT !.sunkShips =
                                                Append(@, [length |-> Len(coordinates),
                                                           positions |-> coordinates])],
                                 \* The rows of player2.board are shared with the
                                 \* copy processAttack wrote into.
                                 !.player2 = [g.player2 EXCEPT !.board =
                                                markSunk(attacked.game.player2.board,
                                                         coordinates)]]
                 /\ hitPatterns' = found
                 /\ event' = [handler |-> "handleManualFeedback", cell |-> selectedCell,
                              result |-> result, confirmed |-> confirmed]
          ELSE /\ gameState' = attacked.game
               /\ hitPatterns' = attacked.hitPatterns
               /\ event' = [handler |-> "handleManualFeedback", cell |-> selectedCell,
                            result |-> result, confirmed |-> 0]
  /\ UNCHANGED engineVars

\* The button of the gameOver phase.
handleReset ==
  /\ gameState.gamePhase = "gameOver"
  /\ gameState' = [gameState EXCEPT !.gamePhase = "setup",
                                    !.player1 = NoPlayer,
                                    !.player2 = NoPlayer,
                                    !.gameStats = NoStats,
                                    !.selectedCell = NoCell]
  /\ event' = [NoEvent EXCEPT !.handler = "handleReset"]
  /\ UNCHANGED hitPatterns
  /\ UNCHANGED engineVars

NextGame == handleGameStart \/ handleCellSelect \/ handleManualFeedback \/ handleReset

SpecGame == InitGame /\ [][NextGame]_vars

(***************************************************************************)
(* Vocabulary of the properties, stated on the board and the inputs         *)
(* without the operators of the engine.                                    *)
(***************************************************************************)
Returned == pc = "return"

Board == Cells(boardHeight, boardWidth)
HitSet == Range(hits)
MissSet == Range(misses)

\* The value of a cell of the returned map is Value(c) / probabilityMap.d.
Value(c) == probabilityMap.n[c]
AllZero == \A c \in Board : Value(c) = 0
SomePositive == \E c \in Board : Value(c) > 0

\* The straight runs of L cells that lie on the board.
Lines(L) ==
  {{<<r, c + i>> : i \in 0 .. L - 1} :
     <<r, c>> \in (0 .. boardHeight - 1) \X (0 .. boardWidth - L)}
  \cup
  {{<<r + i, c>> : i \in 0 .. L - 1} :
     <<r, c>> \in (0 .. boardHeight - L) \X (0 .. boardWidth - 1)}

\* The hits on a line form one unbroken run of it (or there is none).
HitsUnbroken(T) ==
  \A x, y \in T \cap HitSet :
    \A z \in T : (x[1] <= z[1] /\ z[1] <= y[1] /\ x[2] <= z[2] /\ z[2] <= y[2])
                   => z \in HitSet

Survives(T) == T \cap MissSet = {} /\ HitsUnbroken(T)

ShipLengths == Range(remainingShips)

NoSurvivor == \A L \in ShipLengths : \A T \in Lines(L) : ~Survives(T)

\* A cell that is neither hit nor miss and lies on a surviving line.
OpenCovered(c) ==
  /\ c \notin HitSet \cup MissSet
  /\ \E L \in ShipLengths : \E T \in Lines(L) : c \in T /\ Survives(T)

(***************************************************************************)
(* C1.  Miss zeroing: in every mode the returned map is exactly 0 at every *)
(* coordinate of the miss list.                                            *)
(***************************************************************************)
C1_MissZeroing ==
  Returned => \A i \in DOMAIN misses : Value(misses[i]) = 0

\* A call with a miss next to a positive cell of the returned map.
C1_Witness ==
  /\ Returned
  /\ \E i \in DOMAIN misses : \E c \in Board :
       /\ Value(c) > 0
       /\ \E dir \in ADJACENT_DIRECTIONS :
            c = <<misses[i][1] + dir[1], misses[i][2] + dir[2]>>

(***************************************************************************)
(* C2.  Hit zeroing: in every mode the returned map is exactly 0 at every  *)
(* coordinate of the hit list, whatever boosts and blends were applied.    *)
(***************************************************************************)
C2_HitZeroing ==
  Returned => \A i \in DOMAIN hits : Value(hits[i]) = 0

\* A call in which a hit lies on a surviving line (its placement count is
\* positive) and the map has positive cells.
C2_Witness ==
  /\ Returned
  /\ SomePositive
  /\ \E i \in DOMAIN hits : \E L \in ShipLengths : \E T \in Lines(L) :
       hits[i] \in T /\ Survives(T)

(***************************************************************************)
(* C3.  Normalization: if the returned map has a strictly positive cell,   *)
(* its strictly positive cells sum to 1; every cell lies in [0, 1].        *)
(***************************************************************************)
C3_Normalized ==
  Returned =>
    /\ SomePositive =>
         SumOver(probabilityMap.n, {c \in Board : Value(c) > 0}) = probabilityMap.d
    /\ \A c \in Board : 0 <= Value(c) /\ Value(c) <= probabilityMap.d
    /\ probabilityMap.d > 0

\* A call whose heuristic boosted some cells: several positive cells of
\* different value.
C3_Witness ==
  /\ Returned
  /\ mode = SUPER_AGGRESSIVE
  /\ Len(hits) > 0
  /\ \E c1, c2 \in Board : 0 < Value(c1) /\ Value(c1) < Value(c2)

(***************************************************************************)
(* C4.  The returned map has one cell per board cell and is all zero when  *)
(* remainingShips is empty, and when no straight run of a remaining ship   *)
(* length is both free of misses and consistent with the hits.             *)
(***************************************************************************)
C4_ZeroWithoutPlacement ==
  Returned =>
    /\ DOMAIN probabilityMap.n = Board
    /\ (Len(remainingShips) = 0 \/ NoSurvivor) => AllZero

\* Ships remain, every line of theirs is ruled out, and some line is ruled
\* out by the consistency filter alone.
C4_Witness ==
  /\ Returned
  /\ Len(remainingShips) > 0
  /\ NoSurvivor
  /\ AllZero
  /\ \E L \in ShipLengths : \E T \in Lines(L) : T \cap MissSet = {}

(***************************************************************************)
(* C5.  A hit is unexplained when every line of a remaining ship length    *)
(* through it holds a miss.                                                *)
(***************************************************************************)
Unexplained(h) ==
  \A L \in ShipLengths : \A T \in Lines(L) : h \in T => T \cap MissSet # {}

SomeHitUnexplained == \E i \in DOMAIN hits : Unexplained(hits[i])

\* C5 as claimed: with an unexplained hit the returned map is all zero, on
\* every board size and in every mode.
C5_UnexplainedHitZeroMap ==
  (Returned /\ SomeHitUnexplained) => AllZero

\* C5 as amended: with an unexplained hit the returned map is positive
\* exactly at the cells that are neither hit nor miss and lie on a surviving
\* line of a remaining ship length; it is all zero only if there is no such
\* cell.
C5_UnexplainedHitSupport ==
  (Returned /\ SomeHitUnexplained) =>
    \A c \in Board : Value(c) > 0 <=> OpenCovered(c)

\* The input of the contradictory-state scenario on a board larger than
\* 2 x 2, where placements away from the hit survive.
C5_Witness ==
  /\ Returned
  /\ boardHeight = 2 /\ boardWidth = 3
  /\ hits = <<<<0, 0>>>>
  /\ MissSet = {<<0, 1>>, <<1, 0>>}
  /\ remainingShips = <<2>>
  /\ Value(<<0, 2>>) > 0 /\ Value(<<1, 1>>) > 0 /\ Value(<<1, 2>>) > 0

C7_HitOrderIrrelevant ==
  Returned =>
    probabilityMap =
      calculateProbabilityMap(boardHeight, boardWidth, RowMajor(HitSet), misses,
                              remainingShips, mode, sunkShips)

(***************************************************************************)
(* C8.  Alignment boost: two adjacent hits in one row, no miss, both       *)
(* horizontal extension cells on the board and with non-zero base          *)
(* probability: in TARGETING, SUPER_AGGRESSIVE and OPTIMIZED each          *)
(* extension cell is strictly greater than every cell directly above or    *)
(* below one of the two hits.                                              *)
(***************************************************************************)
C8_AlignmentBoost ==
  (/\ Returned
   /\ mode \in {TARGETING, SUPER_AGGRESSIVE, OPTIMIZED}
   /\ Len(hits) = 2 /\ Len(misses) = 0 /\ Len(sunkShips) = 0)
  => \A r \in 0 .. boardHeight - 1 : \A c \in 1 .. boardWidth - 3 :
       (/\ HitSet = {<<r, c>>, <<r, c + 1>>}
        /\ OpenCovered(<<r, c - 1>>)
        /\ OpenCovered(<<r, c + 2>>))
       => \A e \in {<<r, c - 1>>, <<r, c + 2>>} :
            \A q \in Board \cap {<<r - 1, c>>, <<r + 1, c>>,
                                 <<r - 1, c + 1>>, <<r + 1, c + 1>>} :
              Value(e) > Value(q)

(***************************************************************************)
(* C9.  Sunk hits do not steer targeting: when every hit lies in a sunk    *)
(* ship's positions, the TARGETING map (and the NORMAL map, upgraded) is   *)
(* the normalized base map, no neighbour of those hits boosted.            *)
(***************************************************************************)
AllHitsSunk ==
  /\ Len(hits) > 0
  /\ \A i \in DOMAIN hits : \E s \in DOMAIN sunkShips :
       hits[i] \in Range(sunkShips[s].positions)

C9_SunkHitsNoBoost ==
  (/\ Returned
   /\ mode \in {NORMAL, TARGETING}
   /\ AllHitsSunk
   /\ Len(remainingShips) > 0
   /\ ~NoSurvivor)
  => probabilityMap =
       normalizeMap(BaseMap(boardHeight, boardWidth, hits, misses,
                            validPlacementsOf(boardHeight, boardWidth, hits,
                                              misses, remainingShips)))

(***************************************************************************)
(* C10.  The example of the module: 10 x 10, hits (2,3) (2,4), misses      *)
(* (0,0) (1,1) (3,3), ships 5 4 3, mode NORMAL: zero at the three misses,  *)
(* positive cells sum to 1, (2,2) and (2,5) non-zero and each strictly     *)
(* greater than every other cell.                                          *)
(***************************************************************************)
IsExample ==
  /\ boardHeight = 10 /\ boardWidth = 10
  /\ hits = <<<<2, 3>>, <<2, 4>>>>
  /\ misses = <<<<0, 0>>, <<1, 1>>, <<3, 3>>>>
  /\ remainingShips = <<5, 4, 3>>
  /\ mode = NORMAL

C10_Example ==
  (Returned /\ IsExample) =>
    /\ Value(<<0, 0>>) = 0 /\ Value(<<1, 1>>) = 0 /\ Value(<<3, 3>>) = 0
    /\ SumOver(probabilityMap.n, {c \in Board : Value(c) > 0}) = probabilityMap.d
    /\ Value(<<2, 2>>) > 0 /\ Value(<<2, 5>>) > 0
    /\ \A c \in Board \ {<<2, 2>>, <<2, 5>>} :
         Value(c) < Value(<<2, 2>>) /\ Value(c) < Value(<<2, 5>>)

C10_Witness == Returned /\ IsExample /\ SomePositive

(***************************************************************************)
(* Further vocabulary: the surviving runs of each orientation, counted as  *)
(* the enumeration counts them (a run of one cell is a run of its row and  *)
(* a run of its column).                                                   *)
(***************************************************************************)
HorizontalLines(L) ==
  {{<<r, c + i>> : i \in 0 .. L - 1} :
     <<r, c>> \in (0 .. boardHeight - 1) \X (0 .. boardWidth - L)}

VerticalLines(L) ==
  {{<<r + i, c>> : i \in 0 .. L - 1} :
     <<r, c>> \in (0 .. boardHeight - L) \X (0 .. boardWidth - 1)}

\* Surviving runs of length L through the cells of S (all of them).
SurvivorsThrough(L, S) ==
  Cardinality({T \in HorizontalLines(L) : S \subseteq T /\ Survives(T)})
  + Cardinality({T \in VerticalLines(L) : S \subseteq T /\ Survives(T)})

\* Coverage of a cell and the total, over the entries of remainingShips.
Coverage(c) ==
  SumOver([i \in DOMAIN remainingShips |-> SurvivorsThrough(remainingShips[i], {c})],
          DOMAIN remainingShips)

TotalSurvivors ==
  SumOver([i \in DOMAIN remainingShips |-> SurvivorsThrough(remainingShips[i], {})],
          DOMAIN remainingShips)

\* The map of the division loop for the inputs of the state.
BaseOfState ==
  BaseMap(boardHeight, boardWidth, hits, misses,
          validPlacementsOf(boardHeight, boardWidth, hits, misses, remainingShips))

(***************************************************************************)
(* C11.  Base map: when some placement survives, the value of the division *)
(* loop at every cell that is neither hit nor miss is (surviving           *)
(* placements covering the cell) / (all surviving placements), summed over *)
(* the entries of remainingShips; and a NORMAL call without hits returns   *)
(* values pairwise proportional to these coverage counts.                  *)
(***************************************************************************)
C11_BaseMapCounts ==
  Returned =>
    LET base == BaseOfState
        total == TotalSurvivors
        coverage == Table([c \in Board |-> Coverage(c)])
    IN total > 0 =>
         /\ \A c \in Board \ (HitSet \cup MissSet) :
              base.n[c] * total = coverage[c] * base.d
         /\ (mode = NORMAL /\ hits = <<>>) =>
              \A c, e \in Board : Value(c) * coverage[e] = Value(e) * coverage[c]

\* A NORMAL call without hits, with a miss and two ships of different
\* lengths, that returns two different positive values.
C11_Witness ==
  /\ Returned /\ mode = NORMAL /\ hits = <<>> /\ misses # <<>>
  /\ Len(remainingShips) = 2 /\ remainingShips[1] # remainingShips[2]
  /\ \E c, e \in Board : Value(c) > Value(e) /\ Value(e) > 0
  /\ \E c \in Board : BaseOfState.n[c] > 0

(***************************************************************************)
(* C12.  Centre against corners: with no hit, no miss, one remaining ship  *)
(* of length L > 1 and a board of odd height and odd width, the NORMAL     *)
(* value of the centre cell is at least the value of each corner cell.     *)
(***************************************************************************)
OddBoard == boardHeight % 2 = 1 /\ boardWidth % 2 = 1

Centre == <<(boardHeight - 1) \div 2, (boardWidth - 1) \div 2>>

Corners == {0, boardHeight - 1} \X {0, boardWidth - 1}

OneLongShip == Len(remainingShips) = 1 /\ remainingShips[1] > 1

C12_CentreAtLeastCorner ==
  (Returned /\ mode = NORMAL /\ hits = <<>> /\ misses = <<>>
     /\ OneLongShip /\ OddBoard)
    => \A k \in Corners : Value(Centre) >= Value(k)

\* A 3 x 5 board and a ship of length 2 or more: the centre is strictly
\* above a corner that some placement covers.
C12_Witness ==
  /\ Returned /\ mode = NORMAL /\ hits = <<>> /\ misses = <<>>
  /\ OneLongShip /\ boardHeight = 3 /\ boardWidth = 5
  /\ \E k \in Corners : Value(Centre) > Value(k) /\ Value(k) > 0

PlacementsOfState(L) ==
  generateValidPlacements(boardHeight, boardWidth, L, hits, misses)

C14_PlacementsExact ==
  Returned =>
    \A L \in 1 .. MaxShipLen + 1 :
      /\ {Range(p.cells) : p \in PlacementsOfState(L)}
           = {T \in Lines(L) : Survives(T)}
      /\ \A p \in PlacementsOfState(L) :
           /\ Len(p.cells) = L
           /\ Range(p.cells) \subseteq Board \ MissSet
      /\ (L > boardHeight /\ L > boardWidth) => PlacementsOfState(L) = {}

\* A board where a run is dropped for a gap between its hits and, for one
\* length, a run is dropped for a miss while another is returned.
C14_Witness ==
  /\ Returned
  /\ \E L \in 2 .. MaxShipLen :
       \E T \in Lines(L) : T \cap MissSet = {} /\ ~HitsUnbroken(T)
  /\ \E L \in 2 .. MaxShipLen :
       /\ \E T \in Lines(L) : T \cap MissSet # {}
       /\ PlacementsOfState(L) # {}

(***************************************************************************)
(* C15.  Consistency filter: isConsistentWithHits accepts a placement      *)
(* exactly when it overlaps no hit or the hits it overlaps sit at          *)
(* consecutive indices of the placement; a placement whose hits are        *)
(* separated by a cell that is not a hit is rejected and is in no list the *)
(* aggregation counts.                                                     *)
(***************************************************************************)
C15_ConsistencyFilter ==
  Returned =>
    /\ \A L \in 1 .. MaxShipLen : \A T \in Lines(L) :
         isConsistentWithHits(RowMajor(T), hits) <=> HitsUnbroken(T)
    /\ \A i \in DOMAIN remainingShips :
         \A p \in validPlacementsOf(boardHeight, boardWidth, hits, misses,
                                    remainingShips)[i] :
           HitsUnbroken(Range(p.cells))

\* Two hits with a free cell between them on a run of three, a ship of
\* that length, and another run that holds one hit and is accepted.
C15_Witness ==
  /\ Returned
  /\ \E i \in DOMAIN remainingShips :
       \E T \in Lines(remainingShips[i]) : ~HitsUnbroken(T)
  /\ \E L \in 2 .. MaxShipLen : \E T \in Lines(L) :
       /\ Cardinality(T \cap HitSet) = 1
       /\ isConsistentWithHits(RowMajor(T), hits)

(***************************************************************************)
(* Vocabulary of the heuristics: aligned hits, the cells that extend a run *)
(* of hits, the neighbours of hits, and a returned map that is the base    *)
(* map with cell c weighted by Wn[c] / Wd.                                 *)
(***************************************************************************)
Adjacent(x, y) ==
  \/ x[1] = y[1] /\ (x[2] = y[2] + 1 \/ y[2] = x[2] + 1)
  \/ x[2] = y[2] /\ (x[1] = y[1] + 1 \/ y[1] = x[1] + 1)

Open == Board \ (HitSet \cup MissSet)

\* Two hits next to each other in a row or a column.
SomeAligned(H) == \E x, y \in H : Adjacent(x, y)

\* The maximal runs of two or more of the hits H, as sets of cells.
Runs(H) ==
  {T \in SUBSET H :
     /\ Cardinality(T) >= 2
     /\ StraightLine(T)
     /\ \A h \in H \ T : ~StraightLine(T \cup {h})}

\* The cells just beyond the two ends of a run, on the board and not a miss.
Extensions(T) ==
  {c \in Board \ (MissSet \cup T) : StraightLine(T \cup {c})}

\* The cells next to a hit of H that are neither hit nor miss.
Neighbours(H) == {c \in Open : \E h \in H : Adjacent(c, h)}

EffectiveMode == IF mode = NORMAL /\ hits # <<>> THEN TARGETING ELSE mode

\* The returned values of the open cells are in the ratio of
\* Coverage(c) * Wn[c]: every cell is in that ratio to one cell whose
\* weighted coverage is positive, if there is such a cell.
ReturnedInRatio(Wn) ==
  LET weighted == Table([c \in Open |-> Coverage(c) * Wn[c]])
  IN \A e \in Open :
       weighted[e] > 0 =>
         \A c \in Open : Value(c) * weighted[e] = Value(e) * weighted[c]

(***************************************************************************)
(* C16.  TARGETING: when the hits hold a run of two or more aligned hits   *)
(* (here: the hits are one such run), the extension points of the run are  *)
(* multiplied by 4 and no neighbour is multiplied by 3; when no two hits   *)
(* are aligned, the neighbours of the hits are multiplied by 3.            *)
(***************************************************************************)
C16_TargetingAlignedRun ==
  (Returned /\ EffectiveMode = TARGETING /\ hits # <<>>) =>
    /\ Runs(HitSet) = {HitSet} =>
         ReturnedInRatio([c \in Board |->
           IF c \in Extensions(HitSet) THEN ALIGNMENT_FACTOR ELSE 1])
    /\ ~SomeAligned(HitSet) =>
         ReturnedInRatio([c \in Board |->
           IF c \in Neighbours(HitSet) THEN ADJACENCY_FACTOR ELSE 1])

(***************************************************************************)
(* C17.  SUPER_AGGRESSIVE with hits: when an aligned group exists (here:   *)
(* the hits are one run) its extension points are multiplied by 8 (and by  *)
(* the completion factor 10 where it applies) and no cell is multiplied by *)
(* the adjacency factor 5; when no two hits are aligned (here: a single    *)
(* hit) the neighbours of the hits are multiplied by 5.                    *)
(***************************************************************************)
C17_AggressiveAlignedRun ==
  (Returned /\ mode = SUPER_AGGRESSIVE /\ hits # <<>>) =>
    /\ Runs(HitSet) = {HitSet} =>
         /\ \A c, e \in Open \ Extensions(HitSet) :
              Value(c) * Coverage(e) = Value(e) * Coverage(c)
         /\ \A x \in Extensions(HitSet) : \A c \in Open \ Extensions(HitSet) :
              \E w \in {SUPER_ALIGNMENT_FACTOR,
                        SUPER_ALIGNMENT_FACTOR * SUPER_COMPLETION_FACTOR} :
                Value(x) * Coverage(c) = w * Value(c) * Coverage(x)
    /\ Cardinality(HitSet) = 1 =>
         ReturnedInRatio([c \in Board |->
           IF c \in Neighbours(HitSet) THEN SUPER_ADJACENCY_FACTOR ELSE 1])

(***************************************************************************)
(* C18.  Completion cells: an extension point of an aligned group gets the *)
(* completion factor exactly when the group is one short of the length of  *)
(* some ship of remainingShips.  Stated for TARGETING (factor 5) and       *)
(* SUPER_AGGRESSIVE (factor 10) when the hits are one run: against a       *)
(* covered cell f away from every hit, an extension point x carries the    *)
(* weight of its alignment or adjacency boost times the completion factor  *)
(* if the run completes a ship, and that weight alone if it does not.      *)
(***************************************************************************)
CompletesSomeShip(T) ==
  \E i \in DOMAIN remainingShips : Cardinality(T) = remainingShips[i] - 1

FarCells == {f \in Open \ Neighbours(HitSet) : Coverage(f) > 0}

C18_CompletionCells ==
  (Returned /\ EffectiveMode \in {TARGETING, SUPER_AGGRESSIVE}
     /\ Runs(HitSet) = {HitSet}) =>
    LET first == IF EffectiveMode = TARGETING
                 THEN {ADJACENCY_FACTOR, ALIGNMENT_FACTOR}
                 ELSE {SUPER_ADJACENCY_FACTOR, SUPER_ALIGNMENT_FACTOR}
        completion == IF ~CompletesSomeShip(HitSet) THEN 1
                      ELSE IF EffectiveMode = TARGETING THEN COMPLETION_FACTOR
                      ELSE SUPER_COMPLETION_FACTOR
    IN \A x \in Extensions(HitSet) : \A f \in FarCells :
         Coverage(x) > 0 =>
           \E b \in first :
             Value(x) * Coverage(f) = b * completion * Value(f) * Coverage(x)

(***************************************************************************)
(* C19.  Corner recognition: a corner cell closing the rectangle of one    *)
(* pair of hits that share neither row nor column is multiplied by the     *)
(* mode's corner factor once for that pair.  Stated for SUPER_AGGRESSIVE   *)
(* with exactly two such hits: next to the adjacency factor 5 of the       *)
(* neighbours of the hits, an open corner cell carries the factor 1.5, not *)
(* its square.                                                             *)
(***************************************************************************)
DiagonalPair ==
  /\ Cardinality(HitSet) = 2
  /\ \A x, y \in HitSet : x # y => (x[1] # y[1] /\ x[2] # y[2])

CornerCells ==
  {k \in Open : \E x, y \in HitSet : x # y /\ k = <<x[1], y[2]>>}

C19_CornerOncePerPair ==
  (Returned /\ mode = SUPER_AGGRESSIVE /\ DiagonalPair) =>
    ReturnedInRatio([c \in Board |->
      (IF c \in Neighbours(HitSet) THEN SUPER_ADJACENCY_FACTOR ELSE 1)
      * (IF c \in CornerCells THEN SuperPatternNum ELSE SuperPatternDen)])

(***************************************************************************)
(* C20.  OPTIMIZED without active hits (no hit, or every hit in a sunk     *)
(* ship): the base map is reweighted by the initial search pattern alone.  *)
(* With s = max(2, min(remainingShips) - 1), a cell (r, c) is doubled once *)
(* iff r and c are both 0 mod s or both 1 mod s; on the 10 x 10 board, and *)
(* on no other, the 12 corner-area cells are halved and the 3 x 3 block    *)
(* centred at (5, 5) is multiplied by 1.25.                                *)
(***************************************************************************)
NoActiveHit ==
  \A h \in HitSet : \E j \in DOMAIN sunkShips : h \in Range(sunkShips[j].positions)

Spacing ==
  LET smallest == CHOOSE L \in ShipLengths : \A K \in ShipLengths : L <= K
  IN IF smallest - 1 > 2 THEN smallest - 1 ELSE 2

OnGrid(c) ==
  \/ c[1] % Spacing = 0 /\ c[2] % Spacing = 0
  \/ c[1] % Spacing = 1 /\ c[2] % Spacing = 1

Standard == boardHeight = 10 /\ boardWidth = 10

InCornerArea(c) ==
  /\ c[1] \in {0, 1, 8, 9} /\ c[2] \in {0, 1, 8, 9}
  /\ c[1] \in {0, 9} \/ c[2] \in {0, 9}

InCentreBlock(c) == c[1] \in 4 .. 6 /\ c[2] \in 4 .. 6

\* The weights in eighths: 2 or 1, times 1/2 or 1, times 5/4 or 1.
C20_InitialPatternOnly ==
  (Returned /\ mode = OPTIMIZED /\ NoActiveHit /\ remainingShips # <<>>) =>
    ReturnedInRatio([c \in Board |->
      (IF OnGrid(c) THEN 2 ELSE 1)
      * (IF Standard /\ InCornerArea(c) THEN 1 ELSE 2)
      * (IF Standard /\ InCentreBlock(c) THEN 5 ELSE 4)])

\* The 10 x 10 board with the one hit (0, 0) in a sunk ship.
C20_Witness ==
  /\ Returned /\ mode = OPTIMIZED /\ Standard
  /\ hits # <<>> /\ NoActiveHit /\ SomePositive
  /\ \E i \in DOMAIN remainingShips : remainingShips[i] >= 4

(***************************************************************************)
(* C21.  Entropy blend: in OPTIMIZED mode with an active hit, every        *)
(* positive cell p of the boosted map becomes 0.7 * p + 0.3 * e, where e   *)
(* is the number of runs through the cell (over the entries of             *)
(* remainingShips) with no miss in their other cells, divided by the       *)
(* greatest such number; the blend is left out exactly when the active     *)
(* hits hold two or more aligned groups.                                   *)
(***************************************************************************)
ActiveHitSet ==
  {h \in HitSet : ~\E j \in DOMAIN sunkShips : h \in Range(sunkShips[j].positions)}

\* Runs of length L through c whose other cells hold no miss.
RunsThrough(L, c) ==
  Cardinality({T \in HorizontalLines(L) : c \in T /\ (T \ {c}) \cap MissSet = {}})
  + Cardinality({T \in VerticalLines(L) : c \in T /\ (T \ {c}) \cap MissSet = {}})

Through(c) ==
  SumOver([i \in DOMAIN remainingShips |-> RunsThrough(remainingShips[i], c)],
          DOMAIN remainingShips)

\* The map after the boosts, for the active hits of the state.
BoostedOfState ==
  optimizedBoosts(BaseOfState, boardHeight, boardWidth,
                  RowMajor(ActiveHitSet), misses)

C21_EntropyBlend ==
  (Returned /\ mode = OPTIMIZED /\ ActiveHitSet # {} /\ TotalSurvivors > 0) =>
    LET boosted == BoostedOfState
        live == {c \in Board : boosted.n[c] > 0}
        through == Table([c \in live |-> Through(c)])
        most == SetMax({0} \cup {through[c] : c \in live})
        keep == EntropyWeightDen - EntropyWeightNum
        blended == Table([c \in live |->
                            IF Cardinality(Runs(ActiveHitSet)) >= 2
                            THEN boosted.n[c]
                            ELSE keep * boosted.n[c] * most
                                 + EntropyWeightNum * through[c] * boosted.d])
        common == GCDOver(blended, live, 0)
        lowest == Table([c \in live |-> blended[c] \div common])
    \* The returned numerators have no common divisor (they sum to the
    \* denominator of a map in lowest terms), and neither have those of
    \* lowest: the two are in one ratio exactly when they are equal.
    IN /\ \A c \in Board \ live : Value(c) = 0
       /\ \A c \in live : Value(c) = lowest[c]

(***************************************************************************)
(* C22.  HUNTING (with or without hits) and SUPER_AGGRESSIVE without hits: *)
(* the only heuristic is the checkerboard damping.  The returned value of  *)
(* a cell is its coverage count times w (1/2 when row + column is odd, 1   *)
(* when even), divided by the sum of these products over the board, so a   *)
(* SUPER_AGGRESSIVE call without hits returns the map of the HUNTING call  *)
(* on the same inputs.                                                     *)
(***************************************************************************)
CheckerboardOnly == mode = HUNTING \/ (mode = SUPER_AGGRESSIVE /\ hits = <<>>)

\* Twice the weight w of a cell.
Parity(c) == IF (c[1] + c[2]) % 2 = 1 THEN 1 ELSE 2

C22_CheckerboardOnly ==
  (Returned /\ CheckerboardOnly) =>
    LET weighted == Table([c \in Board |->
                             IF c \in Open THEN Coverage(c) * Parity(c) ELSE 0])
        sum == SumOver(weighted, Board)
    IN /\ \A c \in Board :
            IF sum = 0 THEN Value(c) = 0
            ELSE Value(c) * sum = weighted[c] * probabilityMap.d
       /\ mode = SUPER_AGGRESSIVE =>
            probabilityMap = calculateProbabilityMap(boardHeight, boardWidth,
                               hits, misses, remainingShips, HUNTING, sunkShips)

\* A HUNTING call with a hit, or a SUPER_AGGRESSIVE call without one, in
\* which an odd cell and an even cell of equal coverage are both positive.
C22_Witness ==
  /\ Returned /\ CheckerboardOnly
  /\ mode = HUNTING => hits # <<>>
  /\ \E c, e \in Open :
       /\ Parity(c) = 1 /\ Parity(e) = 2
       /\ Coverage(c) = Coverage(e) /\ Value(c) > 0
       /\ 2 * Value(c) = Value(e)

(***************************************************************************)
(* C23.  findAlignedHits returns exactly the maximal runs of the hits:     *)
(* every group holds two or more hits of one row ("horizontal") or one     *)
(* column ("vertical"), listed once each by increasing consecutive index,  *)
(* with no hit just before or just after it in its line; every maximal run *)
(* of two or more hits is returned exactly once; and a hit is in at most   *)
(* one horizontal and at most one vertical group.                          *)
(***************************************************************************)
\* The coordinate that varies along a group: 2 (column) in a row.
Along(direction) == IF direction = "horizontal" THEN 2 ELSE 1

Across(direction) == IF direction = "horizontal" THEN 1 ELSE 2

\* The cell k steps along the direction from x.
Step(x, direction, k) ==
  IF direction = "horizontal" THEN <<x[1], x[2] + k>> ELSE <<x[1] + k, x[2]>>

C23_AlignedGroupsAreRuns ==
  Returned =>
    LET groups == Table(findAlignedHits(hits))
        GroupsWith(h, direction) ==
          {i \in DOMAIN groups :
             groups[i].direction = direction /\ h \in Range(groups[i].coordinates)}
    IN /\ \A i \in DOMAIN groups :
            LET g == groups[i].coordinates
                d == groups[i].direction
            IN /\ d \in {"horizontal", "vertical"}
               /\ Len(g) >= 2
               /\ Range(g) \subseteq HitSet
               /\ \A k \in 2 .. Len(g) : g[k] = Step(g[k - 1], d, 1)
               /\ Step(g[1], d, -1) \notin HitSet
               /\ Step(g[Len(g)], d, 1) \notin HitSet
       /\ \A T \in Runs(HitSet) :
            Cardinality({i \in DOMAIN groups : Range(groups[i].coordinates) = T}) = 1
       /\ \A h \in HitSet :
            /\ Cardinality(GroupsWith(h, "horizontal")) <= 1
            /\ Cardinality(GroupsWith(h, "vertical")) <= 1

\* A run of three hits given out of order that shares a hit with a run of
\* the other direction, in a call that looks for aligned groups.
C23_Witness ==
  /\ Returned /\ EffectiveMode = TARGETING /\ SomePositive
  /\ hits # RowMajor(HitSet)
  /\ \E T, U \in Runs(HitSet) :
       /\ Cardinality(T) = 3 /\ T # U /\ T \cap U # {}
       /\ \E i \in DOMAIN hits : i < Len(hits) /\ hits[i] \in T /\ hits[i + 1] \in T
                                 /\ hits[i + 1][2] < hits[i][2]

(***************************************************************************)
(* C24.  getExtensionPoints returns, for an aligned group, exactly the     *)
(* cell just before its first and the cell just after its last coordinate  *)
(* along its direction, each unless it is off the board or a miss: at most *)
(* two cells, each once, none off the board, none a miss, none a cell of   *)
(* the group.                                                              *)
(***************************************************************************)
\* The two cells just beyond the ends of the cells T of a group.
Ends(T, direction) ==
  {Step(x, direction, k) : <<x, k>> \in T \X {-1, 1}} \ T

PatternOfState ==
  applyOptimalInitialPattern([n |-> [c \in Board |-> 1], d |-> 1],
                             boardHeight, boardWidth, remainingShips)

Smallest == SetMin(ShipLengths)

C25_GridHitsSmallestShip ==
  (Returned /\ mode = OPTIMIZED /\ NoActiveHit /\ remainingShips # <<>>
     /\ ~Standard) =>
    LET pattern == PatternOfState
        doubled == {c \in Board : pattern.n[c] = GridFactor * pattern.d}
    IN /\ doubled = {c \in Board : OnGrid(c)}
       /\ \A T \in Lines(Smallest) : T \cap doubled # {}

(***************************************************************************)
(* C26.  Support preservation: in every mode a cell of the returned map is *)
(* positive exactly when its value in the base map is positive, which is   *)
(* exactly when it is neither hit nor miss and some surviving placement    *)
(* covers it; the set of positive cells is therefore fixed by the board,   *)
(* the hits, the misses and the remaining ships, whatever the mode.        *)
(***************************************************************************)
C26_SupportPreserved ==
  Returned =>
    LET base == BaseOfState
    IN \A c \in Board :
         /\ Value(c) > 0 <=> base.n[c] > 0
         /\ Value(c) > 0 <=> OpenCovered(c)

\* An OPTIMIZED call that blends the entropy into the map, on a board with
\* an open cell that no surviving placement covers although a run without
\* a miss passes through it, next to positive cells.
C26_Witness ==
  /\ Returned /\ mode = OPTIMIZED /\ SomePositive
  /\ ActiveHitSet # {} /\ Cardinality(Runs(HitSet)) < 2
  /\ \E c \in Open : ~OpenCovered(c) /\ Through(c) > 0 /\ Value(c) = 0

(***************************************************************************)
(* C27.  analyzeHitPatterns(hits, sunkShips) partitions the active hits:   *)
(* it works on the hits that lie in no sunk ship's positions (the list     *)
(* getActiveHits returns), every active hit is in some aligned group or in *)
(* isolatedHits and never in both, and no coordinate of a sunk ship is in  *)
(* a group or in isolatedHits.  Stated on the last call a handler made.    *)
(***************************************************************************)
SunkCellsOf(sunk) == UNION {Range(sunk[s].positions) : s \in DOMAIN sunk}

C27_HitPatternsPartition ==
  LET sunkCells == SunkCellsOf(hitPatterns.sunkShips)
      active == Range(hitPatterns.hits) \ sunkCells
      grouped == UNION {Range(hitPatterns.alignedGroups[k].coordinates) :
                          k \in DOMAIN hitPatterns.alignedGroups}
      isolated == Range(hitPatterns.isolatedHits)
  IN /\ active = Range(getActiveHits(hitPatterns.hits, hitPatterns.sunkShips))
     /\ \A k \in DOMAIN hitPatterns.alignedGroups :
          Range(hitPatterns.alignedGroups[k].coordinates) \in Runs(active)
     /\ \A T \in Runs(active) : T \subseteq grouped
     /\ grouped \cup isolated = active
     /\ grouped \cap isolated = {}
     /\ (grouped \cup isolated) \cap sunkCells = {}

\* A hit reported next to a cell of a ship sunk before: the hit is active
\* and isolated although it lies in line with the hits of the sunk ship.
C27_Witness ==
  /\ event.handler = "handleManualFeedback" /\ event.result = "hit"
  /\ hitPatterns.sunkShips # <<>>
  /\ hitPatterns.hits = gameState.player1.hits
  /\ \E h \in Range(hitPatterns.isolatedHits) :
       \E x \in SunkCellsOf(hitPatterns.sunkShips) : Adjacent(h, x)

(***************************************************************************)
(* C28.  For every ship length L >= 1 of remainingShips,                   *)
(* generateValidPlacements returns no two placements on the same set of    *)
(* cells, so that the total the engine divides by is the number of         *)
(* surviving runs of cells, each counted once.                             *)
(***************************************************************************)
\* The runs of cells that survive, over the entries of remainingShips.
DistinctSurvivors ==
  SumOver([i \in DOMAIN remainingShips |->
             Cardinality({T \in Lines(remainingShips[i]) : Survives(T)})],
          DOMAIN remainingShips)

C28_NoDuplicatePlacements ==
  Returned =>
    /\ \A L \in ShipLengths :
         \A p, q \in PlacementsOfState(L) :
           Range(p.cells) = Range(q.cells) => p = q
    /\ totalPlacements(validPlacementsOf(boardHeight, boardWidth, hits, misses,
                                         remainingShips))
         = DistinctSurvivors

(***************************************************************************)
(* C29.  In the game component, whatever cells are selected and attacked   *)
(* and whatever feedback is given, player1.hits and player1.misses hold no *)
(* coordinate twice and have no coordinate in common; and a click on a     *)
(* cell whose state is already hit, miss or sunk changes nothing of the    *)
(* game state (the turn number changes only together with totalShots).     *)
(***************************************************************************)
NoRepeat(list) == \A i, j \in DOMAIN list : list[i] = list[j] => i = j

HitsAndMissesApart ==
  /\ NoRepeat(gameState.player1.hits)
  /\ NoRepeat(gameState.player1.misses)
  /\ Range(gameState.player1.hits) \cap Range(gameState.player1.misses) = {}

\* The step is a click or a feedback on a cell that was attacked before.
AttackOnAttackedCell ==
  /\ gameState.gamePhase = "play"
  /\ event'.handler \in {"handleCellSelect", "handleManualFeedback"}
  /\ gameState.player2.board[event'.cell].state \in {"hit", "miss", "sunk"}

C29_HitsMissesDisjoint ==
  /\ []HitsAndMissesApart
  /\ [][AttackOnAttackedCell => gameState' = gameState]_vars

\* A click on the first cell of a ship that was sunk, after a miss.
C29_Witness ==
  /\ event.handler = "handleCellSelect"
  /\ gameState.gamePhase = "play"
  /\ gameState.player2.board[event.cell].state = "sunk"
  /\ gameState.player1.misses # <<>>
  /\ Len(gameState.player1.hits) >= 2
  /\ event.cell = gameState.player1.hits[1]

(***************************************************************************)
(* C30.  Manual feedback: after the user reports "hit" for the selected    *)
(* cell, the cell is in player1.hits and gameStats.hits is the number of   *)
(* coordinates of player1.hits, whatever the answers to the confirmation   *)
(* of a sunk ship: what handleManualFeedback writes does not discard the   *)
(* hit that processAttack recorded in the same handler.                    *)
(***************************************************************************)
HitReported == event.handler = "handleManualFeedback" /\ event.result = "hit"

C30_ReportedHitKept ==
  HitReported =>
    /\ \E i \in DOMAIN gameState.player1.hits : gameState.player1.hits[i] = event.cell
    /\ gameState.gameStats.hits = Len(gameState.player1.hits)

====
